---------------------------- MODULE Spec2Model ----------------------------
(***************************************************************************)
(* ChapterFlashEMT: the flashcard data fixer (scripts/fix-flashcards.ts)   *)
(* and the flashcard test suite (runTests).                                *)
(*                                                                         *)
(* The fixer reads the content store, flattens it into one list of cards,  *)
(* backfills the tags of untagged cards, strips markup from question and   *)
(* answer, slices the list back into the store's groups and writes the     *)
(* store.  The model is the run as a state machine over the file on disk   *)
(* and the run's local variables.                                          *)
(*                                                                         *)
(* Text is a sequence of tokens.  A token is a non-empty string that is    *)
(* either made of word characters only ([A-Za-z0-9_]) or a single          *)
(* non-word character; the text it stands for is the concatenation of its  *)
(* tokens.  "<" and ">" are tokens of their own, so the markup pattern     *)
(* reads the same on tokens as on characters, and a word boundary \b lies  *)
(* exactly between a word token and a non-word token (or a text end).      *)
(*                                                                         *)
(* The flat list holds the card objects of the parsed document.  The model *)
(* keeps the cards of the flat list as values: every card list of the      *)
(* document is replaced by a slice of the flat list before the document is *)
(* written, so the document's own copies are never observed.               *)
(*                                                                         *)
(* Three specifications run the same actions on different inputs:          *)
(*   Spec       stores of every shape, their cards taken from PoolCards;   *)
(*   CardSpec   one-card stores, the card ranging over TagCards;           *)
(*   StripSpec  one-card stores, the card ranging over MarkupCards.        *)
(* A fourth, TestSpec, is the validation run on lists of cards taken from  *)
(* TestPool; the fixer does not run in it, nor the validation in the       *)
(* other three.                                                            *)
(***************************************************************************)
EXTENDS Integers, Sequences, FiniteSets, TLC

VARIABLES
    file,            \* the store file on disk (FLASHCARDS_PATH)
    pc,              \* where the invocation stands: start, loaded, done,
                     \* failed (off: the fixer does not run)
    jsonData,        \* the parsed document (JSON.parse(rawData))
    mainLen,         \* mainCards.length
    cards,           \* the flat list [...mainCards, ...chapterCards]
    index,           \* number of cards the forEach has visited
    fixedTagsCount,  \* 'Cards with tags added'
    fixedHtmlCount,  \* 'Cards with HTML removed'
    totalChanges,    \* 'Total cards modified'
    exitCode,        \* the process's exit status (-1: still running)
    run,             \* number of the invocation (1 is the first)
    input,           \* the file as the current invocation found it
    prevExit,        \* exit status of the previous invocation (-1: none)
    writes,          \* calls of fs.writeFileSync in the current invocation
    testPc,          \* where the validation run stands: off, start, tested,
                     \* printed, exited
    testCards,       \* the cards the validation run loaded
    results,         \* the TestResult of each of the five tests
    printed,         \* what the validation run has printed
    testExit         \* the validation run's exit status (-1: still running)

\* the state of the fixer and the state of the validation run
fixVars == <<file, pc, jsonData, mainLen, cards, index, fixedTagsCount,
             fixedHtmlCount, totalChanges, exitCode, run, input, prevExit,
             writes>>

valVars == <<testPc, testCards, results, printed, testExit>>

vars == <<fixVars, valVars>>

-----------------------------------------------------------------------------
(* Bounds of the model. *)

MaxMain == 1       \* longest mainFlashcards list
MaxColl == 2       \* most chapterCollections
MaxPerColl == 2    \* longest flashcards list of a collection
MaxRuns == 2       \* invocations in a row
MaxChapter == 1    \* largest chapterNumber
MaxWords == 2      \* longest question of the tag-backfill inputs, in tokens
MaxTextLen == 6    \* longest question/answer of the markup inputs, in tokens

-----------------------------------------------------------------------------
(* JavaScript values. *)

\* obj.f !== undefined
Has(obj, f) == f \in DOMAIN obj

Min(a, b) == IF a < b THEN a ELSE b

\* Array.prototype.slice(start, end) for start, end >= 0
Slice(arr, start, end) == SubSeq(arr, start + 1, Min(end, Len(arr)))

\* the elements of a sequence
Range(seq) == {seq[i] : i \in 1..Len(seq)}

-----------------------------------------------------------------------------
(* Text. *)

NonWordTokens == {" ", "<", ">", "/", "?", "-"}

IsWordToken(t) == t \notin NonWordTokens

\* upper-case tokens of the inputs and their String.prototype.toLowerCase()
LowerOf ==
    ("Basic" :> "basic") @@ ("Intermediate" :> "intermediate") @@
    ("Advanced" :> "advanced") @@ ("Assessment" :> "assessment") @@
    ("Shock" :> "shock") @@ ("Airway" :> "airway") @@ ("Scenario" :> "scenario")

toLowerCase(s) == IF s \in DOMAIN LowerOf THEN LowerOf[s] ELSE s

lowerText(text) == [i \in 1..Len(text) |-> toLowerCase(text[i])]

\* the string a token sequence stands for
RECURSIVE Join(_)
Join(text) == IF text = <<>> THEN "" ELSE Head(text) \o Join(Tail(text))


-----------------------------------------------------------------------------
(* stripHtmlTags: text.replace(/<[^>]+>/g, '') *)

\* the position of the first ">" at or after position i, 0 when there is none
RECURSIVE FirstClose(_, _)
FirstClose(text, i) ==
    IF i > Len(text) THEN 0
    ELSE IF text[i] = ">" THEN i
    ELSE FirstClose(text, i + 1)

\* a pattern that also accepts the empty tag "<>": /<[^>]*>/
MatchEndStar(text, i) ==
    IF text[i] # "<" THEN 0 ELSE FirstClose(text, i + 1)

\* The end of the match of /<[^>]+>/ that starts at position i, 0 when none
\* starts there: "<", one or more tokens other than ">", then ">".
MatchEnd(text, i) ==
    IF text[i] # "<" THEN 0
    ELSE LET j == FirstClose(text, i + 1)
         IN  IF j >= i + 2 THEN j ELSE 0

\* the global replace: scan from position i, drop each match, keep the rest
RECURSIVE ReplaceFrom(_, _)
ReplaceFrom(text, i) ==
    IF i > Len(text) THEN <<>>
    ELSE IF MatchEnd(text, i) # 0 THEN ReplaceFrom(text, MatchEnd(text, i) + 1)
    ELSE <<text[i]>> \o ReplaceFrom(text, i + 1)

\* a replace without the g flag: only the first match is dropped
RECURSIVE ReplaceFirstFrom(_, _)
ReplaceFirstFrom(text, i) ==
    IF i > Len(text) THEN <<>>
    ELSE IF MatchEnd(text, i) # 0
         THEN SubSeq(text, MatchEnd(text, i) + 1, Len(text))
    ELSE <<text[i]>> \o ReplaceFirstFrom(text, i + 1)

stripFirstOnly(text) == ReplaceFirstFrom(text, 1)

stripHtmlTags(text) == ReplaceFrom(text, 1)

-----------------------------------------------------------------------------
(* generateDefaultTags *)

\* the topic table: one entry per content.match(/\b(k1|k2|...)\b/) test
TopicTable == <<
    [tag |-> "airway",
     keywords |-> {"airway", "breathing", "ventilation", "oxygen", "respiratory"}],
    [tag |-> "cardiac",
     keywords |-> {"cardiac", "heart", "pulse", "circulation", "blood pressure", "cpr"}],
    [tag |-> "trauma",
     keywords |-> {"trauma", "fracture", "injury", "bleeding", "wound", "shock"}],
    [tag |-> "medical",
     keywords |-> {"medical", "illness", "disease", "condition", "symptom"}],
    [tag |-> "pediatric",
     keywords |-> {"pediatric", "child", "infant", "baby"}],
    [tag |-> "obstetric",
     keywords |-> {"obstetric", "pregnancy", "birth", "labor", "delivery"}],
    [tag |-> "geriatric",
     keywords |-> {"geriatric", "elderly", "older adult"}],
    [tag |-> "assessment",
     keywords |-> {"assessment", "evaluate", "examine", "check", "vital signs"}],
    [tag |-> "patient-history",
     keywords |-> {"history", "sample", "opqrst", "chief complaint"}],
    [tag |-> "treatment",
     keywords |-> {"treatment", "care", "intervention", "procedure"}],
    [tag |-> "medication",
     keywords |-> {"medication", "drug", "epinephrine", "aspirin", "nitroglycerin"}],
    [tag |-> "immobilization",
     keywords |-> {"splint", "immobilization", "bandage", "dressing"}],
    [tag |-> "scene-safety",
     keywords |-> {"scene", "safety", "hazard", "danger", "bsi"}],
    [tag |-> "communication",
     keywords |-> {"communication", "report", "radio", "documentation"}],
    [tag |-> "transport",
     keywords |-> {"transport", "ambulance", "move", "transfer"}],
    [tag |-> "equipment",
     keywords |-> {"equipment", "device", "tool", "apparatus"}],
    [tag |-> "legal",
     keywords |-> {"consent", "refusal", "legal", "liability", "negligence"}],
    [tag |-> "protocol",
     keywords |-> {"protocol", "standard", "scope", "guideline"}] >>

\* \b at both ends of the tokens i..j: a word starts at i and ends at j
WordBounded(content, i, j) ==
    /\ IsWordToken(content[i])
    /\ IsWordToken(content[j])
    /\ i = 1 \/ ~IsWordToken(content[i - 1])
    /\ j = Len(content) \/ ~IsWordToken(content[j + 1])

\* every string that stands between two word boundaries of the content
BoundedStrings(content) ==
    {Join(SubSeq(content, i, j)) :
        <<i, j>> \in {p \in (1..Len(content)) \X (1..Len(content)) :
                        p[1] <= p[2] /\ WordBounded(content, p[1], p[2])}}

\* content.match(/\b(k1|k2|...)\b/) is not null
matches(content, keywords) == BoundedStrings(content) \cap keywords # {}

\* `${card.question} ${card.answer}`.toLowerCase()
contentOf(card) ==
    lowerText((IF Has(card, "question") THEN card.question ELSE <<"undefined">>)
              \o <<" ">> \o
              (IF Has(card, "answer") THEN card.answer ELSE <<"undefined">>))

\* an else-if chain: only the first topic that matches is pushed
topicTagsFirstOnly(content) ==
    LET hit == SelectSeq(TopicTable, LAMBDA t : matches(content, t.keywords))
    IN  IF hit = <<>> THEN <<>> ELSE <<hit[1].tag>>

\* the topic tags pushed for the content, in table order
topicTags(content) ==
    LET hit == SelectSeq(TopicTable, LAMBDA t : matches(content, t.keywords))
    IN  [i \in 1..Len(hit) |-> hit[i].tag]

\* `chapter-${card.chapterNumber}`
chapterTag(n) == "chapter-" \o ToString(n)

\* if (card.chapterNumber): absent and 0 are falsy
hasChapter(card) == Has(card, "chapterNumber") /\ card.chapterNumber # 0

\* the tags pushed before the topic scan: chapter, type, lower-cased difficulty
structuralTags(card) ==
    (IF hasChapter(card) THEN <<chapterTag(card.chapterNumber)>> ELSE <<>>)
    \o (IF card.type # "" THEN <<card.type>> ELSE <<>>)
    \o (IF card.difficulty # "" THEN <<toLowerCase(card.difficulty)>> ELSE <<>>)

\* the list as it stands, duplicates kept
keepDuplicates(tags) == tags

\* Array.from(new Set(tags)): the first occurrence of each value, in order
RECURSIVE dedupe(_)
dedupe(tags) ==
    IF tags = <<>> THEN <<>>
    ELSE LET init == dedupe(SubSeq(tags, 1, Len(tags) - 1))
             last == tags[Len(tags)]
         IN  IF last \in Range(init) THEN init ELSE Append(init, last)

\* a fallback for every list of at most three tags
fallbackWhenFew(tags) ==
    IF Len(tags) <= 3 THEN tags \o <<"emt-basic", "core-knowledge">> ELSE tags

\* if (tags.length === 3) push the two generic tags
withFallback(tags) ==
    IF Len(tags) = 3 THEN tags \o <<"emt-basic", "core-knowledge">> ELSE tags

generateDefaultTags(card) ==
    dedupe(withFallback(structuralTags(card) \o topicTags(contentOf(card))))

-----------------------------------------------------------------------------
(* The store document.                                                     *)
(*                                                                         *)
(* file:  [kind |-> "missing"], [kind |-> "invalid"] (not JSON) or         *)
(*        [kind |-> "json", doc |-> d].                                    *)
(* d:     a record with an optional field data; data a record with the     *)
(*        optional fields mainFlashcards (a list of cards) and             *)
(*        chapterCollections (a list of collections).                      *)
(* A collection is a record with an optional field flashcards, which is    *)
(*        [kind |-> "array", items |-> list of cards],                     *)
(*        [kind |-> "string", length |-> k]  a string of k characters,     *)
(*        [kind |-> "object"]                a value with no length ({}),  *)
(*        [kind |-> "null"].                                               *)
(* A card is a record with id, difficulty, type and the optional fields    *)
(*        question, answer, tags, chapterNumber.                           *)
(***************************************************************************)

\* JSON.stringify(jsonData, null, 2): the text of the document
stringify(doc) == [kind |-> "json", doc |-> doc]

\* data?.mainFlashcards || []
mainCardsOf(doc) ==
    IF Has(doc, "data") /\ Has(doc.data, "mainFlashcards")
    THEN doc.data.mainFlashcards ELSE <<>>

\* data?.chapterCollections when it is an array, else no collection
collectionsOf(doc) ==
    IF Has(doc, "data") /\ Has(doc.data, "chapterCollections")
    THEN doc.data.chapterCollections ELSE <<>>

\* collection.flashcards && Array.isArray(collection.flashcards)
isCardArray(collection) ==
    Has(collection, "flashcards") /\ collection.flashcards.kind = "array"

\* the forEach that pushes every array collection's cards onto chapterCards
RECURSIVE chapterCardsOf(_)
chapterCardsOf(collections) ==
    IF collections = <<>> THEN <<>>
    ELSE (IF isCardArray(Head(collections))
          THEN Head(collections).flashcards.items ELSE <<>>)
         \o chapterCardsOf(Tail(collections))

\* collection.flashcards.length: a number, or undefined
lengthOf(flashcards) ==
    CASE flashcards.kind = "array"  -> [defined |-> TRUE, n |-> Len(flashcards.items)]
      [] flashcards.kind = "string" -> [defined |-> TRUE, n |-> flashcards.length]
      [] OTHER                      -> [defined |-> FALSE]

\* chapterIndex + chapterLength: NaN when either is not a number
plus(chapterIndex, chapterLength) ==
    IF chapterIndex.nan \/ ~chapterLength.defined
    THEN [nan |-> TRUE]
    ELSE [nan |-> FALSE, n |-> chapterIndex.n + chapterLength.n]

\* ToIntegerOrInfinity of a slice argument: NaN is 0
toInteger(x) == IF x.nan THEN 0 ELSE x.n

\* the rebuild forEach: each collection takes the next chapterLength cards
RECURSIVE rebuildCollections(_, _, _)
rebuildCollections(collections, chapterIndex, flat) ==
    IF collections = <<>> THEN <<>>
    ELSE LET collection == Head(collections)
             chapterLength == lengthOf(collection.flashcards)
             next == plus(chapterIndex, chapterLength)
             items == Slice(flat, toInteger(chapterIndex), toInteger(next))
         IN  <<[collection EXCEPT !.flashcards = [kind |-> "array", items |-> items]]>>
             \o rebuildCollections(Tail(collections), next, flat)

\* reading jsonData.data.mainFlashcards or collection.flashcards.length of
\* undefined or null raises a TypeError
rebuildThrows(doc) ==
    \/ ~Has(doc, "data")
    \/ \E i \in 1..Len(collectionsOf(doc)) :
          \/ ~Has(collectionsOf(doc)[i], "flashcards")
          \/ collectionsOf(doc)[i].flashcards.kind = "null"

\* "Rebuild the data structure": mainFlashcards and every collection's
\* flashcards become slices of the flat list
rebuild(doc, flat, nMain) ==
    LET data1 == [f \in DOMAIN doc.data \cup {"mainFlashcards"} |->
                    IF f = "mainFlashcards" THEN Slice(flat, 0, nMain) ELSE doc.data[f]]
    IN  [doc EXCEPT !.data =
            IF Has(data1, "chapterCollections")
            THEN [data1 EXCEPT !.chapterCollections =
                     rebuildCollections(@, [nan |-> FALSE, n |-> nMain], flat)]
            ELSE data1]

-----------------------------------------------------------------------------
(* The per-card fix. *)

\* every card is backfilled, tagged or not
needsTagsAlways(card) == TRUE

\* !card.tags || card.tags.length === 0
needsTags(card) == ~Has(card, "tags") \/ Len(card.tags) = 0

\* card.tags = generateDefaultTags(card)
withTags(card, tags) ==
    [f \in DOMAIN card \cup {"tags"} |-> IF f = "tags" THEN tags ELSE card[f]]

\* stripHtmlTags(undefined) raises a TypeError
fixThrows(card) == ~Has(card, "question") \/ ~Has(card, "answer")

\* the card after the forEach callback
fixedCard(card) ==
    LET tagged == IF needsTags(card) THEN withTags(card, generateDefaultTags(card))
                  ELSE card
    IN  [tagged EXCEPT !.question = stripHtmlTags(card.question),
                       !.answer = stripHtmlTags(card.answer)]

\* the fixedHtmlCount++ of the callback: one per field that changed
htmlFixes(card) ==
    (IF stripHtmlTags(card.question) # card.question THEN 1 ELSE 0)
    + (IF stripHtmlTags(card.answer) # card.answer THEN 1 ELSE 0)

-----------------------------------------------------------------------------
(* The inputs. *)

\* The cards of the store inputs, without their ids.
PoolCards == <<
    \* tagged (with a repeated tag), markup in question and answer
    [question |-> <<"<", "b", ">", "shock", "<", "/", "b", ">">>,
     answer |-> <<"<", "i", ">", "x">>,
     difficulty |-> "Basic", type |-> "definition",
     tags |-> <<"cardiology", "cardiology">>, chapterNumber |-> 1],
    \* untagged, no chapter, no topic keyword
    [question |-> <<"x">>, answer |-> <<"y">>,
     difficulty |-> "Advanced", type |-> "application", tags |-> <<>>],
    \* untagged, no chapter, no type, no difficulty, no topic keyword
    [question |-> <<"x">>, answer |-> <<"<", ">">>,
     difficulty |-> "", type |-> "", tags |-> <<>>],
    \* no tags field, chapter 10, the type is also a topic keyword of the content
    [question |-> <<"Assessment", " ", "x">>, answer |-> <<"y">>,
     difficulty |-> "Basic", type |-> "assessment", chapterNumber |-> 10],
    \* untagged, no chapter, one topic keyword
    [question |-> <<"airway">>, answer |-> <<"x">>,
     difficulty |-> "Basic", type |-> "definition", tags |-> <<>>],
    \* no question field
    [answer |-> <<"x">>, difficulty |-> "Basic", type |-> "definition",
     tags |-> <<"t">>] >>

\* the card with id k: the pool card at k + offset, cyclically
cardWithId(k, offset) ==
    LET body == PoolCards[((k + offset) % Len(PoolCards)) + 1]
    IN  [f \in DOMAIN body \cup {"id"} |-> IF f = "id" THEN k ELSE body[f]]

\* the cards with ids base+1 .. base+n
cardList(base, n, offset) == [i \in 1..n |-> cardWithId(base + i, offset)]

\* what a collection's flashcards field may hold: <<kind, size>>
FlashcardsShapes ==
    ({"array"} \X (0..MaxPerColl)) \cup {<<"string", 1>>}
    \cup {<<"object", 0>>, <<"null", 0>>, <<"absent", 0>>}

\* the collections of the given shapes, their cards numbered from base + 1
RECURSIVE collectionList(_, _, _)
collectionList(shapes, base, offset) ==
    IF shapes = <<>> THEN <<>>
    ELSE LET kind == Head(shapes)[1]
             size == Head(shapes)[2]
             collection ==
                 CASE kind = "array" ->
                        [flashcards |-> [kind |-> "array",
                                         items |-> cardList(base, size, offset)]]
                   [] kind = "string" ->
                        [flashcards |-> [kind |-> "string", length |-> size]]
                   [] kind = "absent" -> [chapterNumber |-> 0]
                   [] OTHER -> [flashcards |-> [kind |-> kind]]
         IN  <<collection>>
             \o collectionList(Tail(shapes),
                               IF kind = "array" THEN base + size ELSE base, offset)

ShapeLists == UNION {[1..n -> FlashcardsShapes] : n \in 0..MaxColl}

\* the documents with a data section
DataDocs ==
    {[data |-> [mainFlashcards |-> cardList(0, m, offset),
                chapterCollections |-> collectionList(shapes, m, offset)]] :
        m \in 0..MaxMain, shapes \in ShapeLists, offset \in 0..(Len(PoolCards) - 1)}
    \cup
    {[data |-> [chapterCollections |-> collectionList(shapes, 0, offset)]] :
        shapes \in ShapeLists, offset \in 0..(Len(PoolCards) - 1)}
    \cup
    {[data |-> [mainFlashcards |-> cardList(0, m, offset)]] :
        m \in 0..MaxMain, offset \in 0..(Len(PoolCards) - 1)}

\* the store files a run may find
StoreFiles ==
    {[kind |-> "missing"], [kind |-> "invalid"], stringify([version |-> 1])}
    \cup {stringify(doc) : doc \in DataDocs}

\* every text of at most n tokens over the alphabet
TextsUpTo(alphabet, n) == UNION {[1..k -> alphabet] : k \in 0..n}

\* a store whose only card is the given one, in mainFlashcards
singleCardFile(card) ==
    stringify([data |-> [mainFlashcards |-> <<card>>, chapterCollections |-> <<>>]])

\* tokens of the questions of the tag-backfill inputs: a keyword, a suffix
\* that makes it a longer word, and a blank
TagAlphabet == {"airway", "s", " "}

\* the tags field: <<present, value>>
TagsOptions == {<<FALSE, <<>>>>, <<TRUE, <<>>>>, <<TRUE, <<"curated", "curated">>>>}

\* the chapterNumber field: <<present, value>>
ChapterOptions == {<<FALSE, 0>>} \cup {<<TRUE, n>> : n \in 0..MaxChapter}

tagCard(q, a, d, t, tagsOpt, chapterOpt) ==
    LET fields == {"id", "question", "answer", "difficulty", "type"}
                  \cup (IF tagsOpt[1] THEN {"tags"} ELSE {})
                  \cup (IF chapterOpt[1] THEN {"chapterNumber"} ELSE {})
    IN  [f \in fields |->
            CASE f = "id" -> 1
              [] f = "question" -> q
              [] f = "answer" -> a
              [] f = "difficulty" -> d
              [] f = "type" -> t
              [] f = "tags" -> tagsOpt[2]
              [] f = "chapterNumber" -> chapterOpt[2]]

\* the cards of the tag-backfill inputs
TagCards ==
    {tagCard(q, a, d, t, tagsOpt, chapterOpt) :
        q \in TextsUpTo(TagAlphabet, MaxWords),
        a \in {<<"x">>, <<"Shock">>, <<"Assessment">>},
        d \in {"", "Basic"},
        t \in {"", "assessment", "basic", "Scenario"},
        tagsOpt \in TagsOptions,
        chapterOpt \in ChapterOptions}

\* tokens of the markup inputs
MarkupAlphabet == {"<", ">", "b"}

\* questions with a topic keyword and markup: the keyword as a tag name,
\* next to a tag, and split in two by a tag
KeywordMarkupTexts ==
    {<<"<", "airway", ">", "x">>,
     <<"airway", " ", "<", "b", ">">>,
     <<"air", "<", "b", ">", "way">>}

\* the cards of the markup inputs: every text as the question, as the answer,
\* and as both, on a tagged card; and untagged cards with a chapter whose
\* question holds a keyword and markup
MarkupCards ==
    {tagCard(qa[1], qa[2], "Basic", "definition", <<TRUE, <<"t">>>>, <<TRUE, 1>>) :
        qa \in UNION {{<<t, <<"x">>>>, <<<<"x">>, t>>, <<t, t>>} :
                        t \in TextsUpTo(MarkupAlphabet, MaxTextLen)}}
    \cup {tagCard(q, <<"x">>, "Basic", "definition", <<TRUE, <<>>>>, <<TRUE, 1>>) :
             q \in KeywordMarkupTexts}

-----------------------------------------------------------------------------
(* The run of fixFlashcards. *)

Start(f) ==
    /\ file = f
    /\ pc = "start"
    /\ jsonData = [version |-> 0]
    /\ mainLen = 0
    /\ cards = <<>>
    /\ index = 0
    /\ fixedTagsCount = 0
    /\ fixedHtmlCount = 0
    /\ totalChanges = 0
    /\ exitCode = -1
    /\ run = 1
    /\ input = f
    /\ prevExit = -1
    /\ writes = 0
    /\ testPc = "off"
    /\ testCards = <<>>
    /\ results = <<>>
    /\ printed = <<>>
    /\ testExit = -1

Init == \E f \in StoreFiles : Start(f)

\* fs.writeFileSync writes the text, or throws because the file cannot be
\* opened for writing and leaves it as it was
WriteOutcomes == {"written", "refused"}

writeFileSync(old, text, outcome) ==
    IF outcome = "written" THEN text ELSE old

\* a catch block that saves what it has before it exits
AbortAfterPartialWrite ==
    /\ pc' = "failed"
    /\ exitCode' = 1
    /\ file' = stringify(jsonData)

\* a catch block that reports the error but ends the process normally
AbortWithoutExit ==
    /\ pc' = "failed"
    /\ exitCode' = 0
    /\ UNCHANGED file

\* the catch block: report and process.exit(1); nothing is written
Abort ==
    /\ pc' = "failed"
    /\ exitCode' = 1
    /\ UNCHANGED file

\* readFileSync, JSON.parse, the flatten, and the counters set to 0
Load ==
    /\ pc = "start"
    /\ input' = file
    /\ UNCHANGED <<run, prevExit, index, fixedTagsCount, fixedHtmlCount,
                   totalChanges, writes, valVars>>
    /\ IF file.kind # "json"
       THEN /\ Abort
            /\ UNCHANGED <<jsonData, mainLen, cards>>
       ELSE /\ jsonData' = file.doc
            /\ mainLen' = Len(mainCardsOf(file.doc))
            /\ cards' = mainCardsOf(file.doc) \o chapterCardsOf(collectionsOf(file.doc))
            /\ pc' = "loaded"
            /\ UNCHANGED <<file, exitCode>>

\* one call of the forEach callback, on cards[index]
FixCard ==
    /\ pc = "loaded"
    /\ index < Len(cards)
    /\ UNCHANGED <<jsonData, mainLen, run, input, prevExit, writes, valVars>>
    /\ LET card == cards[index + 1]
       IN  IF fixThrows(card)
           THEN /\ Abort
                /\ UNCHANGED <<cards, index, fixedTagsCount, fixedHtmlCount, totalChanges>>
           ELSE /\ cards' = [cards EXCEPT ![index + 1] = fixedCard(card)]
                /\ index' = index + 1
                /\ fixedTagsCount' = fixedTagsCount + (IF needsTags(card) THEN 1 ELSE 0)
                /\ fixedHtmlCount' = fixedHtmlCount + htmlFixes(card)
                /\ totalChanges' = totalChanges
                       + (IF needsTags(card) \/ htmlFixes(card) > 0 THEN 1 ELSE 0)
                /\ UNCHANGED <<file, pc, exitCode>>

\* the rebuild, writeFileSync and the summary; when writeFileSync throws,
\* the catch block exits with 1
Save ==
    /\ pc = "loaded"
    /\ index = Len(cards)
    /\ UNCHANGED <<mainLen, cards, index, fixedTagsCount, fixedHtmlCount,
                   totalChanges, run, input, prevExit, valVars>>
    /\ IF rebuildThrows(jsonData)
       THEN /\ Abort
            /\ UNCHANGED <<jsonData, writes>>
       ELSE \E outcome \in WriteOutcomes :
                /\ jsonData' = rebuild(jsonData, cards, mainLen)
                /\ writes' = writes + 1
                /\ file' = writeFileSync(file, stringify(jsonData'), outcome)
                /\ pc' = IF outcome = "written" THEN "done" ELSE "failed"
                /\ exitCode' = IF outcome = "written" THEN 0 ELSE 1

\* the operator runs the script again on the file as it is now
Rerun ==
    /\ pc \in {"done", "failed"}
    /\ run < MaxRuns
    /\ run' = run + 1
    /\ prevExit' = exitCode
    /\ pc' = "start"
    /\ exitCode' = -1
    /\ jsonData' = [version |-> 0]
    /\ mainLen' = 0
    /\ cards' = <<>>
    /\ index' = 0
    /\ fixedTagsCount' = 0
    /\ fixedHtmlCount' = 0
    /\ totalChanges' = 0
    /\ writes' = 0
    /\ UNCHANGED <<file, input, valVars>>

Next == Load \/ FixCard \/ Save \/ Rerun

Spec == Init /\ [][Next]_vars

\* the run on every store of one card of the tag-backfill inputs
CardInit == \E card \in TagCards : Start(singleCardFile(card))

CardSpec == CardInit /\ [][Next]_vars

\* the run on every store of one card of the markup inputs
StripInit == \E card \in MarkupCards : Start(singleCardFile(card))

StripSpec == StripInit /\ [][Next]_vars

-----------------------------------------------------------------------------
(* The validation run (runTests): five tests over the loaded cards, the     *)
(* printed summary and the exit status.  A TestResult is a record           *)
(* [total, passed, failed, issues]; an issue is a record                    *)
(* [cardId, chapter, type, issue].                                          *)

MaxTestCards == 5  \* most cards the validation run loads

MinChapterCards == 5  \* if (count < 5)
MaxShownIssues == 10  \* result.issues.length <= 10, slice(0, 10)
MinTextLength == 10   \* card.question.length < 10, card.answer.length < 10
MaxQuestionLength == 500  \* card.question.length > 500
MaxAnswerLength == 1000   \* card.answer.length > 1000
MaxTagLength == 50        \* tag.length > 50

\* String.prototype.length of a text: the characters of its tokens
RECURSIVE length(_)
length(text) == IF text = <<>> THEN 0 ELSE Len(Head(text)) + length(Tail(text))

\* String.prototype.trim() of a text: the blanks at both ends dropped
RECURSIVE trim(_)
trim(text) ==
    IF text = <<>> THEN <<>>
    ELSE IF Head(text) = " " THEN trim(Tail(text))
    ELSE IF text[Len(text)] = " " THEN trim(SubSeq(text, 1, Len(text) - 1))
    ELSE text

\* !s || s.trim() === '' for a text field that may be absent
missingOrEmpty(card, f) == ~Has(card, f) \/ trim(card[f]) = <<>>

\* card.chapterNumber || 0
chapterOf(card) == IF Has(card, "chapterNumber") THEN card.chapterNumber ELSE 0

\* the type field as it is copied into an issue
typeOf(card) == IF Has(card, "type") THEN card.type ELSE "undefined"

issueOf(card, type, text) ==
    [cardId |-> card.id, chapter |-> chapterOf(card), type |-> type, issue |-> text]

\* the sequences of a sequence, one after the other
RECURSIVE concat(_)
concat(lists) == IF lists = <<>> THEN <<>> ELSE Head(lists) \o concat(Tail(lists))

\* the result of a test that visits every card, pushes the card's issues
\* (found[i] for card i) and counts the card as failed when it pushed any,
\* as passed otherwise
perCard(found) ==
    LET bad == Cardinality({i \in 1..Len(found) : found[i] # <<>>})
    IN  [total |-> Len(found), passed |-> Len(found) - bad, failed |-> bad,
         issues |-> concat(found)]

\* Test 1: the issues of one card
integrityIssues(card) ==
    (IF card.id \in {"", " "}
     THEN <<[issueOf(card, typeOf(card), "Missing or empty ID")
                EXCEPT !.cardId = IF card.id = "" THEN "UNKNOWN" ELSE card.id]>>
     ELSE <<>>)
    \o (IF missingOrEmpty(card, "question")
        THEN <<issueOf(card, typeOf(card), "Missing or empty question")>> ELSE <<>>)
    \o (IF missingOrEmpty(card, "answer")
        THEN <<issueOf(card, typeOf(card), "Missing or empty answer")>> ELSE <<>>)
    \o (IF card.difficulty \notin {"Basic", "Intermediate", "Advanced"}
        THEN <<issueOf(card, typeOf(card), "Invalid difficulty: " \o card.difficulty)>>
        ELSE <<>>)
    \o (IF ~Has(card, "type") \/ card.type \in {"", " "}
        THEN <<issueOf(card, "UNKNOWN", "Missing card type")>> ELSE <<>>)
    \o (IF ~Has(card, "tags") \/ card.tags = <<>>
        THEN <<issueOf(card, typeOf(card), "Missing or empty tags array")>> ELSE <<>>)

testDataIntegrity(loaded) ==
    perCard([i \in 1..Len(loaded) |-> integrityIssues(loaded[i])])

\* htmlPattern.test(text) of a /<[^>]+>/g whose lastIndex is the given one:
\* the search starts at character lastIndex; a match moves lastIndex behind
\* it, no match sets lastIndex to 0
htmlPatternTest(text, lastIndex) ==
    LET starts == {i \in 1..Len(text) :
                      /\ length(SubSeq(text, 1, i - 1)) >= lastIndex
                      /\ MatchEnd(text, i) # 0}
    IN  IF starts = {} THEN [found |-> FALSE, lastIndex |-> 0]
        ELSE LET first == CHOOSE i \in starts : \A k \in starts : i <= k
             IN  [found |-> TRUE,
                  lastIndex |-> length(SubSeq(text, 1, MatchEnd(text, first)))]

\* Test 2: the issues of one card; the one htmlPattern of the card is tested
\* on the question and then, with the lastIndex that test left, on the answer
qualityIssues(card) ==
    LET q == card.question
        a == card.answer
        onQuestion == htmlPatternTest(q, 0)
        onAnswer == htmlPatternTest(a, onQuestion.lastIndex)
    IN  (IF length(q) < MinTextLength
         THEN <<issueOf(card, card.type, "Question too short (" \o ToString(length(q))
                                          \o " chars): \"" \o Join(q) \o "\"")>>
         ELSE <<>>)
        \o (IF length(a) < MinTextLength
            THEN <<issueOf(card, card.type, "Answer too short (" \o ToString(length(a))
                                             \o " chars): \"" \o Join(a) \o "\"")>>
            ELSE <<>>)
        \o (IF length(q) > MaxQuestionLength
            THEN <<issueOf(card, card.type, "Question very long (" \o ToString(length(q))
                                  \o " chars) - may cause rendering issues")>>
            ELSE <<>>)
        \o (IF length(a) > MaxAnswerLength
            THEN <<issueOf(card, card.type, "Answer very long (" \o ToString(length(a))
                                  \o " chars) - may cause overflow")>>
            ELSE <<>>)
        \o (IF trim(lowerText(q)) = trim(lowerText(a))
            THEN <<issueOf(card, card.type, "Question and answer are identical")>>
            ELSE <<>>)
        \o (IF onQuestion.found
            THEN <<issueOf(card, card.type,
                           "Question contains HTML tags - may cause rendering issues")>>
            ELSE <<>>)
        \o (IF onAnswer.found
            THEN <<issueOf(card, card.type,
                           "Answer contains HTML tags - may cause rendering issues")>>
            ELSE <<>>)

testContentQuality(loaded) ==
    perCard([i \in 1..Len(loaded) |-> qualityIssues(loaded[i])])

\* Array.prototype.join(', ')
RECURSIVE joinComma(_)
joinComma(strings) ==
    IF strings = <<>> THEN ""
    ELSE IF Len(strings) = 1 THEN strings[1]
    ELSE strings[1] \o ", " \o joinComma(Tail(strings))

\* the keys of chapterCounts, in insertion order
chaptersOf(loaded) == dedupe([i \in 1..Len(loaded) |-> chapterOf(loaded[i])])

\* chapterCounts.get(chapter)
chapterCount(loaded, chapter) ==
    Cardinality({i \in 1..Len(loaded) : chapterOf(loaded[i]) = chapter})

\* chapterTitles.get(chapter): the truthy titles of the chapter's cards, in
\* insertion order
chapterTitles(loaded, chapter) ==
    LET titled == SelectSeq(loaded, LAMBDA card :
                      /\ chapterOf(card) = chapter
                      /\ Has(card, "chapterTitle")
                      /\ card.chapterTitle # "")
    IN  dedupe([i \in 1..Len(titled) |-> titled[i].chapterTitle])

chapterIssue(chapter, text) ==
    [cardId |-> "N/A", chapter |-> chapter, type |-> "chapter", issue |-> text]

tooFewIssue(loaded, chapter) ==
    chapterIssue(chapter, "Chapter " \o ToString(chapter) \o " only has "
                          \o ToString(chapterCount(loaded, chapter))
                          \o " cards (may need more content)")

differentTitlesIssue(loaded, chapter) ==
    chapterIssue(chapter, "Chapter " \o ToString(chapter) \o " has "
                          \o ToString(Len(chapterTitles(loaded, chapter)))
                          \o " different titles: "
                          \o joinComma(chapterTitles(loaded, chapter)))

\* Test 3: one call of the chapterCounts.forEach callback per chapter.  A
\* chapter with fewer than 5 cards is counted as failed, every other as
\* passed; the issue about different titles changes neither count.
RECURSIVE perChapter(_, _)
perChapter(loaded, chapters) ==
    IF chapters = <<>> THEN [passed |-> 0, failed |-> 0, issues |-> <<>>]
    ELSE LET init == perChapter(loaded, SubSeq(chapters, 1, Len(chapters) - 1))
             chapter == chapters[Len(chapters)]
             few == chapterCount(loaded, chapter) < MinChapterCards
         IN  [passed |-> init.passed + (IF few THEN 0 ELSE 1),
              failed |-> init.failed + (IF few THEN 1 ELSE 0),
              issues |-> init.issues
                  \o (IF few THEN <<tooFewIssue(loaded, chapter)>> ELSE <<>>)
                  \o (IF Len(chapterTitles(loaded, chapter)) > 1
                      THEN <<differentTitlesIssue(loaded, chapter)>> ELSE <<>>)]

testChapterDistribution(loaded) ==
    LET counted == perChapter(loaded, chaptersOf(loaded))
    IN  [total |-> Len(loaded), passed |-> counted.passed,
         failed |-> counted.failed, issues |-> counted.issues]

validTypes == <<"definition", "recognition", "application", "scenario", "assessment">>

\* Test 4: the issues of one card
typeIssues(card) ==
    IF toLowerCase(card.type) \in Range(validTypes) THEN <<>>
    ELSE <<issueOf(card, card.type, "Invalid card type: \"" \o card.type
                                     \o "\". Valid types: " \o joinComma(validTypes))>>

testCardTypes(loaded) ==
    perCard([i \in 1..Len(loaded) |-> typeIssues(loaded[i])])

\* Test 5: the issues of one card
tagIssues(card) ==
    LET long == SelectSeq(card.tags, LAMBDA tag : Len(tag) > MaxTagLength)
    IN  (IF \E tag \in Range(card.tags) : tag \in {"", " "}
         THEN <<issueOf(card, card.type, "Contains empty tags")>> ELSE <<>>)
        \o [i \in 1..Len(long) |->
               issueOf(card, card.type, "Tag too long (" \o ToString(Len(long[i]))
                                         \o " chars): \"" \o long[i] \o "\"")]

testTags(loaded) ==
    perCard([i \in 1..Len(loaded) |-> tagIssues(loaded[i])])

\* a test reads a property of undefined: question.length, answer.length,
\* type.toLowerCase() or tags.some
testsThrow(loaded) ==
    \E card \in Range(loaded) :
        \/ ~Has(card, "question")
        \/ ~Has(card, "answer")
        \/ ~Has(card, "type")
        \/ ~Has(card, "tags")

\* a printed line: the test it belongs to, what it says, a number and, for a
\* line that shows an issue, the issue
NoIssue == [cardId |-> "", chapter |-> 0, type |-> "", issue |-> ""]

line(test, kind, n) == [test |-> test, kind |-> kind, n |-> n, issue |-> NoIssue]

issueLine(test, issue) == [test |-> test, kind |-> "issue", n |-> 0, issue |-> issue]

\* printResults(testName, result): the issues are printed only when
\* result.failed > 0, all of them up to 10, the first 10 beyond
printResults(testName, result) ==
    <<line(testName, IF result.failed = 0 THEN "ok" ELSE "warning", 0),
      line(testName, "Total", result.total),
      line(testName, "Passed", result.passed)>>
    \o (IF result.failed > 0
        THEN <<line(testName, "Failed", result.failed)>>
             \o (IF Len(result.issues) > 0 /\ Len(result.issues) <= MaxShownIssues
                 THEN <<line(testName, "Issues found", 0)>>
                      \o [i \in 1..Len(result.issues) |->
                             issueLine(testName, result.issues[i])]
                 ELSE IF Len(result.issues) > MaxShownIssues
                 THEN <<line(testName, "issues found (showing first 10)",
                             Len(result.issues))>>
                      \o [i \in 1..MaxShownIssues |->
                             issueLine(testName, result.issues[i])]
                      \o <<line(testName, "more", Len(result.issues) - MaxShownIssues)>>
                 ELSE <<>>)
        ELSE <<>>)

\* the tests in the order of Object.values(results)
TestNames == <<"Data Integrity", "Content Quality", "Chapter Distribution",
               "Card Types", "Tag Validation">>

NoResult == [total |-> 0, passed |-> 0, failed |-> 0, issues |-> <<>>]

NoResults == [i \in 1..Len(TestNames) |-> NoResult]

\* Object.values(results).reduce((sum, r) => sum + r[field], 0)
RECURSIVE sumOf(_, _, _)
sumOf(all, field, i) ==
    IF i = 0 THEN 0 ELSE all[i][field] + sumOf(all, field, i - 1)

totalTests == sumOf(results, "total", Len(results))
totalPassed == sumOf(results, "passed", Len(results))
totalFailed == sumOf(results, "failed", Len(results))

\* the cards the validation run may load
testCard(id, chapter, title, q, a, difficulty, type, tags) ==
    [id |-> id, chapterNumber |-> chapter, chapterTitle |-> title, question |-> q,
     answer |-> a, difficulty |-> difficulty, type |-> type, tags |-> tags]

withoutField(card, f) == [g \in DOMAIN card \ {f} |-> card[g]]

TestPool ==
    {testCard("a1", 1, "Airway", <<"assessment">>, <<"management">>,
              "Basic", "definition", <<"airway">>),
     testCard("a2", 1, "Airways", <<"assessment">>, <<"management">>,
              "Advanced", "Scenario", <<"airway">>),
     testCard("h1", 1, "Airway", <<"assessment", "<", "b", ">">>,
              <<"<", "b", ">", "management">>, "Basic", "definition", <<"airway">>),
     testCard("x1", 2, "Shock", <<"x">>, <<"x", " ">>, "Expert", "quiz", <<"">>),
     withoutField(testCard("n1", 2, "Shock", <<"assessment">>, <<"management">>,
                           "Basic", "definition", <<>>), "tags")}

TestCardLists == UNION {[1..n -> TestPool] : n \in 0..MaxTestCards}

\* the fixer does not run
FixerOff ==
    /\ file = [kind |-> "missing"]
    /\ pc = "off"
    /\ jsonData = [version |-> 0]
    /\ mainLen = 0
    /\ cards = <<>>
    /\ index = 0
    /\ fixedTagsCount = 0
    /\ fixedHtmlCount = 0
    /\ totalChanges = 0
    /\ exitCode = -1
    /\ run = 1
    /\ input = file
    /\ prevExit = -1
    /\ writes = 0

TestInit ==
    /\ FixerOff
    /\ testPc = "start"
    /\ testCards \in TestCardLists
    /\ results = NoResults
    /\ printed = <<>>
    /\ testExit = -1

\* the five tests, or the catch block when one of them throws
RunTests ==
    /\ testPc = "start"
    /\ UNCHANGED <<fixVars, testCards>>
    /\ IF testsThrow(testCards)
       THEN /\ printed' = Append(printed, line("", "Test execution failed", 0))
            /\ testExit' = 1
            /\ testPc' = "exited"
            /\ UNCHANGED results
       ELSE /\ results' = <<testDataIntegrity(testCards),
                            testContentQuality(testCards),
                            testChapterDistribution(testCards),
                            testCardTypes(testCards),
                            testTags(testCards)>>
            /\ testPc' = "tested"
            /\ UNCHANGED <<printed, testExit>>

\* the TEST SUMMARY: printResults of each test, then the overall results
PrintSummary ==
    /\ testPc = "tested"
    /\ printed' = printed
          \o concat([i \in 1..Len(results) |-> printResults(TestNames[i], results[i])])
          \o <<line("OVERALL", "Total Tests", totalTests),
               line("OVERALL", "Passed", totalPassed)>>
          \o (IF totalFailed > 0
              THEN <<line("OVERALL", "Failed", totalFailed),
                     line("OVERALL", "Some issues were found", 0)>>
              ELSE <<line("OVERALL", "ALL TESTS PASSED", 0)>>)
    /\ testPc' = "printed"
    /\ UNCHANGED <<fixVars, testCards, results, testExit>>

\* process.exit(totalFailed > 0 ? 1 : 0)
ExitTests ==
    /\ testPc = "printed"
    /\ testExit' = IF totalFailed > 0 THEN 1 ELSE 0
    /\ testPc' = "exited"
    /\ UNCHANGED <<fixVars, testCards, results, printed>>

TestNext == RunTests \/ PrintSummary \/ ExitTests

TestSpec == TestInit /\ [][TestNext]_vars

-----------------------------------------------------------------------------
(* What the properties speak of: the store a run read (input) and the one  *)
(* it wrote (file, once pc = "done").                                      *)

\* the run has written the store
Written == pc = "done"

\* the cards of collection i of a document; a non-list holds no cards
collectionCards(doc, i) ==
    LET collection == collectionsOf(doc)[i]
    IN  IF Has(collection, "flashcards") /\ collection.flashcards.kind = "array"
        THEN collection.flashcards.items ELSE <<>>

RECURSIVE SumLen(_, _)
SumLen(doc, i) ==
    IF i = 0 THEN 0 ELSE Len(collectionCards(doc, i)) + SumLen(doc, i - 1)

\* count(primary) + the sum of count(sub-collection i)
cardCount(doc) == Len(mainCardsOf(doc)) + SumLen(doc, Len(collectionsOf(doc)))

\* every card of a document
cardsIn(doc) ==
    Range(mainCardsOf(doc))
    \cup UNION {Range(collectionCards(doc, i)) : i \in 1..Len(collectionsOf(doc))}

idsOf(list) == [i \in 1..Len(list) |-> list[i].id]

\* the card has no tags on input
untagged(card) == ~Has(card, "tags") \/ card.tags = <<>>

\* the tokens i..j are a markup tag: "<", one or more tokens other than ">", ">"
isMarkupTag(text, i, j) ==
    /\ text[i] = "<"
    /\ text[j] = ">"
    /\ j >= i + 2
    /\ \A k \in (i + 1)..(j - 1) : text[k] # ">"

\* some substring of the text is a markup tag
containsMarkup(text) ==
    \E i \in 1..Len(text) : \E j \in i..Len(text) : isMarkupTag(text, i, j)

\* position p of the text lies in a markup tag
inMarkup(text, p) ==
    \E i \in 1..p : \E j \in p..Len(text) : isMarkupTag(text, i, j)

\* the text without the positions that lie in a markup tag
RECURSIVE outsideMarkup(_, _)
outsideMarkup(text, p) ==
    IF p > Len(text) THEN <<>>
    ELSE (IF inMarkup(text, p) THEN <<>> ELSE <<text[p]>>) \o outsideMarkup(text, p + 1)

\* number of question and answer fields of the cards that contain markup
RECURSIVE markupFields(_)
markupFields(list) ==
    IF list = <<>> THEN 0
    ELSE (IF containsMarkup(Head(list).question) THEN 1 ELSE 0)
         + (IF containsMarkup(Head(list).answer) THEN 1 ELSE 0)
         + markupFields(Tail(list))

\* the flat list of a document: main first, then the collections in order
RECURSIVE flatFrom(_, _)
flatFrom(doc, i) ==
    IF i > Len(collectionsOf(doc)) THEN <<>>
    ELSE collectionCards(doc, i) \o flatFrom(doc, i + 1)

flatOf(doc) == mainCardsOf(doc) \o flatFrom(doc, 1)

-----------------------------------------------------------------------------
(* The properties, by number. *)

\* C1 (as stated): cardinality preservation.  Whenever a run has written the
\* store, the written store holds as many cards, main list and collections
\* together, as the store the run read.
C1_CardinalityPreserved ==
    Written => cardCount(file.doc) = cardCount(input.doc)

\* C2 (as stated): re-partition is the inverse of flatten.  Whenever a run has
\* written the store, mainFlashcards and every collection hold the same
\* sequence of card ids as in the store the run read.
C2_GroupsPreserved ==
    Written =>
        /\ idsOf(mainCardsOf(file.doc)) = idsOf(mainCardsOf(input.doc))
        /\ Len(collectionsOf(file.doc)) = Len(collectionsOf(input.doc))
        /\ \A i \in 1..Len(collectionsOf(input.doc)) :
              idsOf(collectionCards(file.doc, i)) = idsOf(collectionCards(input.doc, i))

\* C3 (as stated): idempotence of the job.  A run on the store that the run
\* before it wrote reports no tags added, no HTML removed and no card
\* modified, and writes the store it read.
C3_SecondRunChangesNothing ==
    (Written /\ prevExit = 0) =>
        /\ fixedTagsCount = 0
        /\ fixedHtmlCount = 0
        /\ totalChanges = 0
        /\ file = input

\* C4 (as stated): after a completed run every card of the written store has
\* a tags list with at least one entry.
C4_EveryCardTagged ==
    Written => \A card \in cardsIn(file.doc) : Has(card, "tags") /\ Len(card.tags) >= 1

\* C5: after a completed run no question and no answer of the written store
\* contains a markup tag, whatever markup the store read held: one strip pass
\* leaves no tag and joins none from the text around the tags it removed.
C5_NoMarkupAfterRun ==
    Written => \A card \in cardsIn(file.doc) :
                  ~containsMarkup(card.question) /\ ~containsMarkup(card.answer)

\* C5 witness: a run has written a card whose question held a markup tag on
\* input and still holds a "<" and a ">" after the strip.
C5_Witness ==
    /\ Written
    /\ \E old \in cardsIn(input.doc) : \E new \in cardsIn(file.doc) :
          /\ new.id = old.id
          /\ containsMarkup(old.question)
          /\ {"<", ">"} \subseteq Range(new.question)

\* C6: tag non-regression.  After a completed run every card that had a
\* non-empty tags list on input has the same list, element for element, and
\* 'Cards with tags added' counts exactly the cards that were read untagged.
C6_TaggedCardsUntouched ==
    Written =>
        /\ \A old \in cardsIn(input.doc) : \A new \in cardsIn(file.doc) :
              (new.id = old.id /\ ~untagged(old)) => new.tags = old.tags
        /\ fixedTagsCount =
              Cardinality({i \in 1..Len(flatOf(input.doc)) : untagged(flatOf(input.doc)[i])})

\* C6 witness: a run has written a store that holds a card read with a
\* repeated tag next to a card read untagged.
C6_Witness ==
    /\ Written
    /\ \E old \in cardsIn(input.doc) : \E new \in cardsIn(file.doc) :
          new.id = old.id /\ ~untagged(old) /\ Len(old.tags) = 2 /\ old.tags[1] = old.tags[2]
    /\ \E old \in cardsIn(input.doc) : untagged(old)
    /\ fixedTagsCount >= 1

\* the card of the written store with the id of the card read
writtenCard(old) == CHOOSE new \in cardsIn(file.doc) : new.id = old.id

\* the card was read untagged and the run has written it
Backfilled(old) ==
    /\ untagged(old)
    /\ \E new \in cardsIn(file.doc) : new.id = old.id

\* C7 (as stated): fallback tagging without a chapter.  A card read with empty
\* tags, no chapterNumber, a type T, a difficulty D and no topic keyword in
\* its content is written with exactly the tags T, lowercase(D), "emt-basic"
\* and "core-knowledge".
C7_FallbackWithoutChapter ==
    Written => \A old \in cardsIn(input.doc) :
        (/\ Backfilled(old)
         /\ ~hasChapter(old)
         /\ old.type # ""
         /\ topicTags(contentOf(old)) = <<>>)
        => Range(writtenCard(old).tags)
             = {old.type, toLowerCase(old.difficulty), "emt-basic", "core-knowledge"}

\* C8 (as stated): the fallback tags are added only when no topic matched.  A
\* card read with empty tags whose content matches a topic pattern is written
\* with neither "emt-basic" nor "core-knowledge".
C8_NoFallbackWithTopic ==
    Written => \A old \in cardsIn(input.doc) :
        (Backfilled(old) /\ topicTags(contentOf(old)) # <<>>)
        => Range(writtenCard(old).tags) \cap {"emt-basic", "core-knowledge"} = {}

\* C9: structural tags of the backfill.  A card read with empty tags, a
\* positive chapterNumber N, a type T and a difficulty D is written with tags
\* that contain "chapter-N", T, lowercase(D) and the tag of every topic one of
\* whose keywords is a word of the content, and that hold no value twice.
C9_StructuralTags ==
    Written => \A old \in cardsIn(input.doc) :
        (/\ Backfilled(old)
         /\ Has(old, "chapterNumber") /\ old.chapterNumber > 0
         /\ old.type # ""
         /\ old.difficulty # "")
        => LET tags == writtenCard(old).tags
           IN  /\ ("chapter-" \o ToString(old.chapterNumber)) \in Range(tags)
               /\ old.type \in Range(tags)
               /\ toLowerCase(old.difficulty) \in Range(tags)
               /\ \A t \in 1..Len(TopicTable) :
                     matches(contentOf(old), TopicTable[t].keywords)
                        => TopicTable[t].tag \in Range(tags)
               /\ \A i, j \in 1..Len(tags) : tags[i] = tags[j] => i = j

\* C9 witness: a run has backfilled a card of type "assessment" with a chapter
\* whose content holds the word "assessment": the type tag and the topic tag
\* coincide.
C9_Witness ==
    /\ Written
    /\ \E old \in cardsIn(input.doc) :
          /\ Backfilled(old)
          /\ Has(old, "chapterNumber") /\ old.chapterNumber > 0
          /\ old.type = "assessment"
          /\ old.difficulty = "Basic"
          /\ matches(contentOf(old), {"assessment"})
          /\ "assessment" \in Range(writtenCard(old).tags)

\* C10: stripHtmlTags removes exactly the tokens that lie in a markup tag and
\* keeps the others in order, so a text without a markup tag is written as it
\* was read; 'Cards with HTML removed' counts only fields that held a tag.
C10_StripRemovesExactlyMarkup ==
    Written =>
        /\ \A old \in cardsIn(input.doc) : \A new \in cardsIn(file.doc) :
              new.id = old.id =>
                 /\ new.question = outsideMarkup(old.question, 1)
                 /\ new.answer = outsideMarkup(old.answer, 1)
                 /\ ~containsMarkup(old.question) => new.question = old.question
                 /\ ~containsMarkup(old.answer) => new.answer = old.answer
        /\ fixedHtmlCount = markupFields(flatOf(input.doc))

\* C10 witness: a run has written a card whose question lost its one markup
\* tag and kept the empty "<>" before it and the text after it, and whose
\* answer held no markup and was written as read; one field was counted.
C10_Witness ==
    /\ Written
    /\ \E old \in cardsIn(input.doc) : \E new \in cardsIn(file.doc) :
          /\ new.id = old.id
          /\ old.question = <<"<", ">", "<", "b", ">", "b">>
          /\ new.question = <<"<", ">", "b">>
          /\ old.answer = <<"x">>
          /\ new.answer = old.answer
    /\ fixedHtmlCount = 1


\* the sum of the group sizes the rebuild uses for collections 1..i
RECURSIVE usedSizes(_, _)
usedSizes(doc, i) ==
    IF i = 0 THEN 0
    ELSE lengthOf(collectionsOf(doc)[i].flashcards).n + usedSizes(doc, i - 1)

\* every group has a size, and the sizes the rebuild uses add up to the
\* length of the flattened list
sizesMatch(doc) ==
    /\ \A i \in 1..Len(collectionsOf(doc)) :
          /\ Has(collectionsOf(doc)[i], "flashcards")
          /\ lengthOf(collectionsOf(doc)[i].flashcards).defined
    /\ Len(mainCardsOf(doc)) + usedSizes(doc, Len(collectionsOf(doc)))
          = Len(flatOf(doc))

\* C11 (as stated): the reported counts are counts of cards.  Whenever a run
\* has written the store, 'Cards with tags added' is the number of cards that
\* had no tags, and 'Cards with HTML removed' is the number of cards with
\* markup in the question or in the answer, a card with markup in both
\* counted once.
C11_CountsAreCardCounts ==
    Written =>
        LET flat == flatOf(input.doc)
        IN  /\ fixedTagsCount
                 = Cardinality({i \in 1..Len(flat) : untagged(flat[i])})
            /\ fixedHtmlCount
                 = Cardinality({i \in 1..Len(flat) :
                                   \/ containsMarkup(flat[i].question)
                                   \/ containsMarkup(flat[i].answer)})

\* C12: all-or-nothing persistence.  An invocation calls writeFileSync at most
\* once, and only when every card of the flat list has been transformed and
\* the groups have been rebuilt from them; a store it reports as written is
\* the rebuilt document; and as long as it has not called writeFileSync,
\* whether it is still running or has failed in the read, the parse, a
\* card's transformation or the rebuild, the file is the one it found.
C12_AllOrNothing ==
    /\ writes <= 1
    /\ writes = 1 =>
          /\ pc \in {"done", "failed"}
          /\ input.kind = "json"
          /\ LET flat == flatOf(input.doc)
             IN  /\ index = Len(flat)
                 /\ cards = [i \in 1..Len(flat) |-> fixedCard(flat[i])]
                 /\ jsonData = rebuild(input.doc, cards, Len(mainCardsOf(input.doc)))
    /\ Written => writes = 1 /\ file = stringify(jsonData)
    /\ (pc # "start" /\ writes = 0) => file = input

\* an invocation that failed in the rebuild after it had changed its first
\* card in memory: the file is untouched
C12_Witness ==
    /\ pc = "failed"
    /\ writes = 0
    /\ input.kind = "json"
    /\ index >= 1
    /\ index = Len(cards)
    /\ cards[1] # flatOf(input.doc)[1]
    /\ file = input

\* C13 (as stated): shape tolerance.  A run on a store that has a data
\* object fails before the write only because a card lacks its question or
\* answer: absent or non-list sections do not make it fail.
C13_ShapeTolerance ==
    (pc = "failed" /\ writes = 0 /\ input.kind = "json" /\ Has(input.doc, "data"))
        => \E card \in cardsIn(input.doc) : fixThrows(card)

\* C14 (as stated): the re-partition size check.  A run writes the store only
\* if the group sizes its rebuild used add up to the length of the flattened
\* list.
C14_SizeCheck ==
    Written => sizesMatch(input.doc)


\* C15 (as stated): the frame of the normalizer.  Whenever a run has written
\* the store, the store, its data object and every collection have the
\* fields they had and no others, with every field other than the card lists
\* unchanged, and every card has the fields it had (tags may be new on a
\* card that had none) with every field other than question, answer and tags
\* unchanged.
C15_Frame ==
    Written =>
        LET old == input.doc
            new == file.doc
        IN  /\ DOMAIN new = DOMAIN old
            /\ \A f \in DOMAIN old \ {"data"} : new[f] = old[f]
            /\ DOMAIN new.data = DOMAIN old.data
            /\ \A f \in DOMAIN old.data \ {"mainFlashcards", "chapterCollections"} :
                  new.data[f] = old.data[f]
            /\ Len(collectionsOf(new)) = Len(collectionsOf(old))
            /\ \A i \in 1..Len(collectionsOf(old)) :
                  /\ DOMAIN collectionsOf(new)[i] = DOMAIN collectionsOf(old)[i]
                  /\ \A f \in DOMAIN collectionsOf(old)[i] \ {"flashcards"} :
                        collectionsOf(new)[i][f] = collectionsOf(old)[i][f]
            /\ \A a \in cardsIn(old) : \A b \in cardsIn(new) :
                  b.id = a.id =>
                     /\ DOMAIN b \ {"tags"} = DOMAIN a \ {"tags"}
                     /\ \A f \in DOMAIN a \ {"question", "answer", "tags"} :
                           b[f] = a[f]


\* the invocation that finds file f raises before its write: f is missing or
\* not JSON, a card of the flat list lacks its question or answer, or the
\* rebuild reads a property of undefined or null
raisesBeforeWrite(f) ==
    \/ f.kind # "json"
    \/ \E card \in cardsIn(f.doc) : fixThrows(card)
    \/ rebuildThrows(f.doc)

\* C16: the exit status.  A running invocation has no exit status; one that
\* has ended has status 0 or 1; it has status 0 exactly when it read, parsed
\* and transformed the store without an exception and writeFileSync
\* returned, and status 1 when the file was missing or unparsable, a card's
\* transformation or the rebuild raised (nothing was written then), or
\* writeFileSync raised.
C16_ExitStatus ==
    /\ exitCode \in {-1, 0, 1}
    /\ exitCode = -1 <=> pc \in {"start", "loaded"}
    /\ exitCode = 0 <=> pc = "done"
    /\ (pc \in {"done", "failed"} /\ raisesBeforeWrite(input)) =>
          exitCode = 1 /\ writes = 0
    /\ (pc \in {"done", "failed"} /\ ~raisesBeforeWrite(input)) =>
          /\ writes = 1
          /\ exitCode = 0 => file = stringify(jsonData)
          /\ exitCode = 1 => file = input

\* C16 witness: an invocation that got as far as the write of a store of at
\* least one card, whose writeFileSync raised, has exit status 1
C16_Witness ==
    /\ pc = "failed"
    /\ exitCode = 1
    /\ writes = 1
    /\ Len(cards) >= 1
    /\ ~raisesBeforeWrite(input)


\* the keyword occurs in the text as a whole word: some stretch of tokens
\* spells it and no word character stands next to the stretch
occursAsWord(text, keyword) ==
    \E i \in 1..Len(text) : \E j \in i..Len(text) :
        /\ Join(SubSeq(text, i, j)) = keyword
        /\ i = 1 \/ ~IsWordToken(text[i - 1])
        /\ j = Len(text) \/ ~IsWordToken(text[j + 1])

\* a keyword of the topic occurs as a whole word in the lowercased
\* question + ' ' + answer of the card
topicOccurs(card, topic) ==
    \E keyword \in topic.keywords :
        occursAsWord(lowerText(card.question \o <<" ">> \o card.answer), keyword)

\* C17 (as stated): topic tags are decided per topic.  Whenever a run has
\* written the store, a card read with empty tags carries a topic's tag if
\* and only if one of the topic's keywords occurs as a whole word in its
\* lowercased question + ' ' + answer.
C17_TopicTagIffKeyword ==
    Written =>
        \A old \in cardsIn(input.doc) :
            Backfilled(old) =>
                \A k \in 1..Len(TopicTable) :
                    TopicTable[k].tag \in Range(writtenCard(old).tags)
                        <=> topicOccurs(old, TopicTable[k])

\* C17 (amended): whenever a run has written the store, a card read with
\* empty tags carries a topic's tag if and only if one of the topic's
\* keywords occurs as a whole word in its lowercased question + ' ' + answer
\* or the tag is the card's own type or lowercased difficulty; whether
\* another topic matches makes no difference.
C17_TopicTagIffKeywordOrStructural ==
    Written =>
        \A old \in cardsIn(input.doc) :
            Backfilled(old) =>
                \A k \in 1..Len(TopicTable) :
                    TopicTable[k].tag \in Range(writtenCard(old).tags)
                        <=> \/ topicOccurs(old, TopicTable[k])
                            \/ TopicTable[k].tag = old.type
                            \/ TopicTable[k].tag = toLowerCase(old.difficulty)

\* C17 witness: a card read untagged with the question "airway" and the
\* answer "Shock" is written with the tags of both topics, and without the
\* tag of a topic none of whose keywords occurs
C17_Witness ==
    /\ Written
    /\ \E old \in cardsIn(input.doc) :
          /\ Backfilled(old)
          /\ old.question = <<"airway">>
          /\ old.answer = <<"Shock">>
          /\ old.type = "Scenario"
          /\ {"airway", "trauma"} \subseteq Range(writtenCard(old).tags)
          /\ "assessment" \notin Range(writtenCard(old).tags)

\* C18 (as stated): every tag the backfill produces is lowercase.  Whenever a
\* run has written the store, every tag of a card read with empty tags
\* equals its own lowercase form.
C18_TagsLowercase ==
    Written =>
        \A old \in cardsIn(input.doc) :
            Backfilled(old) =>
                \A tag \in Range(writtenCard(old).tags) : tag = toLowerCase(tag)


\* two of the loaded cards have the same chapterNumber and different
\* chapterTitles
titlesDisagree(loaded, chapter) ==
    \E a, b \in Range(loaded) :
        /\ Has(a, "chapterNumber") /\ Has(b, "chapterNumber")
        /\ a.chapterNumber = chapter /\ b.chapterNumber = chapter
        /\ Has(a, "chapterTitle") /\ Has(b, "chapterTitle")
        /\ a.chapterTitle # b.chapterTitle

\* the validation run has printed the issue
shown(issue) == \E i \in 1..Len(printed) : printed[i].kind = "issue" /\ printed[i].issue = issue

\* C19 (as stated): chapter-title validation.  Whenever a validation run
\* whose tests raised no exception has ended and two of its cards have the
\* same chapterNumber N and different chapterTitles, the issue 'Chapter N has
\* k different titles' is among the printed lines, and the run has not
\* printed 'ALL TESTS PASSED' and exited with 0.
C19_TitleMismatchFlagged ==
    (testPc = "exited" /\ ~testsThrow(testCards)) =>
        \A chapter \in Range(chaptersOf(testCards)) :
            titlesDisagree(testCards, chapter) =>
                /\ shown(differentTitlesIssue(testCards, chapter))
                /\ ~(/\ testExit = 0
                     /\ \E i \in 1..Len(printed) : printed[i].kind = "ALL TESTS PASSED")

\* the content-quality result holds the issue for a card
recorded(card, text) ==
    \E i \in 1..Len(results[2].issues) :
        /\ results[2].issues[i].cardId = card.id
        /\ results[2].issues[i].issue = text

\* C20 (as stated): the two markup checks of testContentQuality are
\* independent.  Whenever the tests have run, the content-quality result
\* holds 'Question contains HTML tags' for a card exactly when its question
\* contains a markup tag, and 'Answer contains HTML tags' exactly when its
\* answer does.
C20_HtmlChecksIndependent ==
    testPc \in {"tested", "printed"} =>
        \A card \in Range(testCards) :
            /\ recorded(card, "Question contains HTML tags - may cause rendering issues")
                  <=> containsMarkup(card.question)
            /\ recorded(card, "Answer contains HTML tags - may cause rendering issues")
                  <=> containsMarkup(card.answer)


\* C21 (as stated): tag backfill and markup strip are independent passes.
\* Whenever a run has written the store, a card read with empty tags carries
\* a topic's tag, other than as its type or lowercased difficulty, exactly
\* when one of the topic's keywords occurs as a whole word in the lowercased
\* question + ' ' + answer as written, that is, after the markup was
\* removed.
C21_TagsFromPersistedText ==
    Written =>
        \A old \in cardsIn(input.doc) :
            Backfilled(old) =>
                \A k \in 1..Len(TopicTable) :
                    TopicTable[k].tag \in Range(writtenCard(old).tags)
                        <=> \/ topicOccurs(writtenCard(old), TopicTable[k])
                            \/ TopicTable[k].tag = old.type
                            \/ TopicTable[k].tag = toLowerCase(old.difficulty)


\* the field is absent or the empty string
emptyOrMissing(card, f) == ~Has(card, f) \/ card[f] = ""

differs(old, new) ==
    \/ ~Has(old, "tags")
    \/ new.tags # old.tags
    \/ new.question # old.question
    \/ new.answer # old.answer

\* C23 (as stated): 'Total cards modified'.  Whenever a run has written the
\* store, totalChanges is the number of cards of the flat list whose tags,
\* question or answer are not as they were read, and
\* fixedTagsCount <= totalChanges <= cards processed and
\* fixedHtmlCount <= 2 * totalChanges.
C23_TotalCardsModified ==
    Written =>
        LET flat == flatOf(input.doc)
        IN  /\ totalChanges
                 = Cardinality({i \in 1..Len(flat) : differs(flat[i], cards[i])})
            /\ fixedTagsCount <= totalChanges
            /\ totalChanges <= Len(cards)
            /\ fixedHtmlCount <= 2 * totalChanges


\* C24 (as stated): whenever the five tests have run, passed + failed equals
\* total in each of the five TestResults.
C24_PassedPlusFailedIsTotal ==
    testPc \in {"tested", "printed"} =>
        \A i \in 1..Len(results) :
            results[i].passed + results[i].failed = results[i].total

\* C25 (as stated): whenever a validation run whose tests raised no exception
\* has ended and one of the five results holds an issue, the exit status is
\* 1 and the first 10 issues of every result are among the printed lines.
C25_IssuesFailTheRun ==
    (testPc = "exited" /\ ~testsThrow(testCards)
       /\ \E i \in 1..Len(results) : results[i].issues # <<>>) =>
        /\ testExit = 1
        /\ \A i \in 1..Len(results) :
              \A k \in 1..Min(Len(results[i].issues), MaxShownIssues) :
                  \E n \in 1..Len(printed) :
                      /\ printed[n].kind = "issue"
                      /\ printed[n].test = TestNames[i]
                      /\ printed[n].issue = results[i].issues[k]

=============================================================================
